---- MODULE Spec2Model ----
(***************************************************************************)
(* Movie catalog server (server/server.js, kept here as                    *)
(* src/unnamed/part_001): the JSON catalog file, its timestamped backups   *)
(* with retention pruning, the uploaded media and poster files, and the    *)
(* add / edit / delete / get request handlers.  Every `await` on the       *)
(* filesystem is a step of its own, so that the steps of two requests in   *)
(* flight interleave as Node's event loop lets them.  The browser side is  *)
(* modelled apart from it: fetchWithRetry with its localStorage cache      *)
(* (assets/js/app.js) and the submit handler of the admin form             *)
(* (src/unnamed/part_000).                                                 *)
(***************************************************************************)
EXTENDS Integers, Sequences, FiniteSets, TLC

(***************************************************************************)
(* Bounds of the model and constants of the program.                       *)
(***************************************************************************)
MaxReqs == 2          \* requests started in one behaviour, two in flight at a time
MaxSeqReqs == 2       \* requests started in one behaviour, one at a time
MaxFaults == 1        \* injected I/O failures in one behaviour
MaxBackups == 10      \* cleanupOldBackups(maxBackups = 10)
Slots == {1, 2}       \* requests in flight at the same time

Categories == {"movie", "tv-series", "music", "animation"}

\* A site-relative path "/<pre>/<name>"; NoPath is the empty string.
NoPath == [pre |-> "", name |-> 0]
\* The rating field of a form or record, a string: empty, a decimal number
\* (val is its value in tenths, 105 for "10.5"), or not a number.
NoRating == [kind |-> "none", val |-> 0]
Num(tenths) == [kind |-> "num", val |-> tenths]
NotANumber == [kind |-> "nan", val |-> 0]

NoRec == [id |-> 0, title |-> "", category |-> "", file_path |-> NoPath, poster |-> NoPath,
          rating |-> NoRating]

(***************************************************************************)
(* config: the directories uploads are stored in (lines 17-24), the URL    *)
(* prefixes written into records (lines 340-341), and the static mounts    *)
(* that serve a URL prefix from a directory (lines 297-301).               *)
(***************************************************************************)
UploadDir(field, category) ==
    IF field = "movie_file"
    THEN CASE category = "movie" -> "hub/MOVIES"
           [] category = "tv-series" -> "hub/SERIES"
           [] category = "music" -> "hub/MUSIC"
           [] OTHER -> "hub/ANIMATION"
    ELSE "hub/POSTERS"

UrlPrefix(category) ==
    CASE category = "movie" -> "hub/movies"
      [] category = "tv-series" -> "hub/series"
      [] category = "music" -> "hub/music"
      [] OTHER -> "hub/animations"

PosterPrefix == "hub/posters"

StaticMount(pre) ==
    CASE pre = "hub/movies" -> "hub/MOVIES"
      [] pre = "hub/series" -> "hub/SERIES"
      [] pre = "hub/music" -> "hub/MUSIC"
      [] pre = "hub/animations" -> "hub/ANIMATION"
      [] pre = "hub/posters" -> "hub/POSTERS"
      [] OTHER -> pre

\* Lower-casing of a directory name, for a filesystem that ignores case.
LowerCase(dir) ==
    CASE dir = "hub/MOVIES" -> "hub/movies"
      [] dir = "hub/SERIES" -> "hub/series"
      [] dir = "hub/MUSIC" -> "hub/music"
      [] dir = "hub/ANIMATION" -> "hub/animation"
      [] dir = "hub/POSTERS" -> "hub/posters"
      [] OTHER -> dir

VARIABLES
    file,       \* movies.json: [kind, recs]; kind "json" (an array of records),
                \* "object" (JSON that is not an array), "trunc", "garbled", "missing"
    disk,       \* uploaded files on disk: set of [dir, name]
    backups,    \* backup directory: the timestamps naming its files
    now,        \* the last clock value (ms) a backup has read
    foldCase,   \* the filesystem ignores case in names
    nreq,       \* requests started so far
    faults,     \* I/O failures injected so far
    req,        \* the request in each slot
    lastAddId,  \* the id returned by the latest successful add (0: none yet)
    before,     \* [file, disk, backups, faults] when the latest request arrived
    lastWriter, \* the number of the request whose catalog write ended last (0: none)
    lim,        \* [inflight, reqs, faults, forms]: what one behaviour may do
    localStorage, \* the browser's storage: jwt_token, the cached catalog, its timestamp
    clock,      \* Date.now() in the browser (ms)
    call,       \* the fetchWithRetry call in progress, with its local variables
    page        \* the admin page: isSubmitting, editingMovieId, the requests in flight

svars == <<file, disk, backups, now, foldCase, nreq, faults, req, lastAddId, before, lastWriter, lim>>
cvars == <<localStorage, clock, call, page>>
vars == <<svars, cvars>>

(***************************************************************************)
(* Requests.  A request is what the client sends: the route, the :id       *)
(* parameter, the form fields, and whether each file field carries a file. *)
(***************************************************************************)
Path(pre, name) == [pre |-> pre, name |-> name]

\* Names multer gives the files of the n-th request (storage.filename):
\* distinct from every other name on disk.
MovieName(n) == 2 * n + 2
PosterName(n) == 2 * n + 3

\* The catalog and the files a behaviour may start with.
Rec1 == [id |-> 1, title |-> "x", category |-> "movie",
         file_path |-> Path("hub/movies", 1), poster |-> Path("hub/posters", 2),
         rating |-> NoRating]
Rec2 == [id |-> 2, title |-> "y", category |-> "animation",
         file_path |-> Path("hub/animations", 3), poster |-> NoPath, rating |-> NoRating]
InitCatalogs == {<<>>, <<Rec1, Rec2>>}
StoredFor(recs) ==
    UNION {{[dir |-> StaticMount(recs[i].file_path.pre), name |-> recs[i].file_path.name]}
              \cup (IF recs[i].poster = NoPath THEN {}
                     ELSE {[dir |-> "hub/POSTERS", name |-> recs[i].poster.name]})
           : i \in 1..Len(recs)}

TargetIds == {1, 2}

\* The Authorization header of a request: none, a token that jwt.verify
\* rejects (forged, expired, signed with another key), or a token that
\* /auth/login signed for a user of users.json (default users admin, user1).
Tokens == {"none", "forged", "admin", "user1"}
Signed == {"admin", "user1"}

\* verifyToken: 401 without a token or with one jwt.verify rejects, else next().
VerifyToken(token) ==
    IF token = "none" THEN 401
    ELSE IF token \notin Signed THEN 401
    ELSE 0

\* The routes that run verifyToken ahead of everything else.
Guarded(form) == form.op \in {"add", "edit", "delete"}
Verified(form) == Guarded(form) => VerifyToken(form.token) = 0

\* A form whose files, when it carries any, are a small video in movie_file
\* and a small image in poster_file, and no file in another field; it has
\* no rating, year, description or genres, and carries the admin's token.
Form(op, id, title, category, mf, pf, fp, poster) ==
    [op |-> op, id |-> id, title |-> title, category |-> category,
     mf |-> mf, pf |-> pf, file_path |-> fp, poster |-> poster,
     mmime |-> "video", msize |-> 1, pmime |-> "image", psize |-> 1, xf |-> FALSE,
     rating |-> NoRating, token |-> "admin"]

AddForms ==
    {Form("add", 0, "a", "movie", TRUE, TRUE, NoPath, NoPath),
          Form("add", 0, "a", "animation", TRUE, FALSE, NoPath, NoPath),
          Form("add", 0, "a", "movie", FALSE, FALSE, NoPath, NoPath),
          Form("add", 0, "", "movie", TRUE, FALSE, NoPath, NoPath),
          Form("add", 0, "a", "movie", TRUE, FALSE, NoPath, Path("hub/posters", 2))}
EditForms ==
    {Form("edit", 1, "e", "movie", TRUE, TRUE, NoPath, NoPath),
     Form("edit", 1, "e", "movie", FALSE, FALSE, NoPath, NoPath),
     Form("edit", 2, "e", "movie", TRUE, TRUE, NoPath, NoPath),
     Form("edit", 1, "", "movie", FALSE, FALSE, NoPath, NoPath),
     Form("edit", 2, "e", "animation", FALSE, FALSE, Path("hub/movies", 1), NoPath)}
DeleteForms == {Form("delete", id, "", "", FALSE, FALSE, NoPath, NoPath) : id \in TargetIds}
GetForms == {Form("get", 0, "", "", FALSE, FALSE, NoPath, NoPath)}
Forms == AddForms \cup EditForms \cup DeleteForms \cup GetForms
NoForm == Form("", 0, "", "", FALSE, FALSE, NoPath, NoPath)

(***************************************************************************)
(* The upload middleware (multer): limits.fileSize, the field names of     *)
(* .fields([...]), fileFilter and storage.destination, applied to the file *)
(* parts of the form in the order they arrive; the category field is sent  *)
(* ahead of the files.  Sizes are in bytes.                                *)
(***************************************************************************)
FileSizeLimit == 500 * 1024 * 1024
PosterSizeStated == 10 * 1024 * 1024

\* fileFilter: the MIME type each field accepts
MimeOk(field, mime) ==
    IF field = "movie_file" THEN mime \in {"video", "audio"}
    ELSE IF field = "poster_file" THEN mime = "image"
    ELSE TRUE

\* What multer does with one file part: the error it raises, or "ok".
FileCheck(part, category) ==
    IF part.field \notin {"movie_file", "poster_file"} THEN "LIMIT_UNEXPECTED_FILE"
    ELSE IF ~MimeOk(part.field, part.mime) THEN "Error"
    ELSE IF category \notin Categories THEN "Error"
    ELSE IF part.size > FileSizeLimit THEN "LIMIT_FILE_SIZE"
    ELSE "ok"

Parts(form) ==
    (IF form.mf THEN <<[field |-> "movie_file", mime |-> form.mmime, size |-> form.msize]>> ELSE <<>>)
    \o (IF form.pf THEN <<[field |-> "poster_file", mime |-> form.pmime, size |-> form.psize]>> ELSE <<>>)
    \o (IF form.xf THEN <<[field |-> "trailer_file", mime |-> "video", size |-> 1]>> ELSE <<>>)

\* The first error over the parts of the form, or "ok".
UploadResult(form) ==
    IF \E i \in 1..Len(Parts(form)) : FileCheck(Parts(form)[i], form.category) # "ok"
    THEN FileCheck(Parts(form)[CHOOSE i \in 1..Len(Parts(form)) :
                                  /\ FileCheck(Parts(form)[i], form.category) # "ok"
                                  /\ \A j \in 1..(i - 1) : FileCheck(Parts(form)[j], form.category) = "ok"],
                   form.category)
    ELSE "ok"

\* app.use((err, req, res, next) => ...): 400 for a MulterError, else 500.
ErrorHandler(err) == IF err \in {"LIMIT_UNEXPECTED_FILE", "LIMIT_FILE_SIZE"} THEN 400 ELSE 500

\* The uploads a client may try: the well-formed form, and one thing wrong
\* or at its limit in each of the others.
GoodUpload == Form("add", 0, "a", "movie", TRUE, TRUE, NoPath, NoPath)
UploadForms ==
    {GoodUpload,
     [GoodUpload EXCEPT !.category = "game"],
     [GoodUpload EXCEPT !.category = ""],
     [GoodUpload EXCEPT !.xf = TRUE],
     [GoodUpload EXCEPT !.mmime = "audio"],
     [GoodUpload EXCEPT !.mmime = "image"],
     [GoodUpload EXCEPT !.pmime = "video"],
     [GoodUpload EXCEPT !.msize = FileSizeLimit],
     [GoodUpload EXCEPT !.msize = FileSizeLimit + 1],
     [GoodUpload EXCEPT !.psize = PosterSizeStated],
     [GoodUpload EXCEPT !.psize = PosterSizeStated + 1],
     [GoodUpload EXCEPT !.psize = FileSizeLimit + 1],
     [Form("edit", 1, "e", "movie", TRUE, TRUE, NoPath, NoPath) EXCEPT !.mmime = "text"],
     [Form("edit", 1, "e", "movie", FALSE, TRUE, NoPath, NoPath) EXCEPT !.psize = PosterSizeStated + 1],
     [Form("edit", 2, "e", "cartoon", TRUE, FALSE, NoPath, NoPath) EXCEPT !.msize = FileSizeLimit]}
\* Ratings at, inside and outside the bounds 0 and 10.
Ratings == {Num(v) : v \in {-10, -1, 0, 75, 100, 101, 110}} \cup {NotANumber}
RatingForms ==
    {[Form("add", 0, "a", "movie", TRUE, FALSE, NoPath, NoPath) EXCEPT !.rating = r] : r \in Ratings}
    \cup {[Form("edit", 1, "e", "movie", FALSE, FALSE, NoPath, NoPath) EXCEPT !.rating = r] :
              r \in {Num(-1), Num(100), Num(110)}}
\* Requests without a token, with a rejected one, and with user1's.
TokenForms ==
    {[f EXCEPT !.token = t] :
        f \in {GoodUpload,
                Form("edit", 1, "e", "movie", TRUE, TRUE, NoPath, NoPath),
                Form("delete", 1, "", "", FALSE, FALSE, NoPath, NoPath)},
        t \in Tokens \ {"admin"}}
InputForms == UploadForms \cup RatingForms \cup DeleteForms \cup GetForms \cup TokenForms

\* The requests that are sent while another request is in flight.
RaceForms ==
    {Form("add", 0, "a", "movie", TRUE, FALSE, NoPath, NoPath),
     Form("edit", 1, "e", "movie", TRUE, TRUE, NoPath, NoPath),
     Form("delete", 1, "", "", FALSE, FALSE, NoPath, NoPath),
     Form("get", 0, "", "", FALSE, FALSE, NoPath, NoPath)}

Idle == [pc |-> "idle", n |-> 0, form |-> NoForm, st |-> 0,
         movies |-> <<>>, index |-> 0, movie |-> NoRec, old |-> NoRec,
         todel |-> <<>>, status |-> 0,
         validated |-> FALSE, bakRun |-> FALSE, bak |-> -1, wrote |-> "none", prev |-> 0,
         soft |-> 0]

(***************************************************************************)
(* Pure helpers of the handlers.                                           *)
(***************************************************************************)
\* movie.rating && (isNaN(movie.rating) || movie.rating < 0 || movie.rating > 10)
RatingRejected(rating) ==
    rating.kind # "none" /\ (rating.kind = "nan" \/ rating.val < 0 \/ rating.val > 100)

\* Mutant of ValidateMovie: movie.rating >= 10 is rejected.
ValidateMovieTenOut(movie) ==
    IF movie.title = "" THEN "Title is required"
    ELSE IF movie.category \notin Categories THEN "Invalid category"
    ELSE IF movie.rating.kind # "none" /\ (RatingRejected(movie.rating) \/ movie.rating.val >= 100)
    THEN "Rating must be between 0 and 10"
    ELSE "ok"

\* validateMovie: the first check that fails, or "ok" (the forms carry no
\* year, description or genres, whose checks pass on an empty value).
ValidateMovie(movie) ==
    IF movie.title = "" THEN "Title is required"
    ELSE IF movie.category \notin Categories THEN "Invalid category"
    ELSE IF RatingRejected(movie.rating) THEN "Rating must be between 0 and 10"
    ELSE "ok"

\* The record POST /movies/add builds from the form and the uploaded files.
BuildAdd(form, n) ==
    [id |-> 0, title |-> form.title, category |-> form.category,
     file_path |-> Path(UrlPrefix(form.category), MovieName(n)),
     poster |-> IF form.pf THEN Path(PosterPrefix, PosterName(n)) ELSE form.poster,
     rating |-> form.rating]

\* Mutant of BuildEdit: the old record's paths are not carried over.
BuildEditNoFallback(form, n, old) ==
    [id |-> 0, title |-> form.title, category |-> form.category,
     file_path |-> IF form.mf THEN Path(UrlPrefix(form.category), MovieName(n))
                   ELSE form.file_path,
     poster |-> IF form.pf THEN Path(PosterPrefix, PosterName(n))
                ELSE form.poster,
     rating |-> form.rating]

\* The record POST /movies/edit/:id builds: an uploaded file wins, then the
\* form's override, then the old record's value.
BuildEdit(form, n, old) ==
    [id |-> 0, title |-> form.title, category |-> form.category,
     file_path |-> IF form.mf THEN Path(UrlPrefix(form.category), MovieName(n))
                   ELSE IF form.file_path # NoPath THEN form.file_path
                   ELSE old.file_path,
     poster |-> IF form.pf THEN Path(PosterPrefix, PosterName(n))
                ELSE IF form.poster # NoPath THEN form.poster
                ELSE old.poster,
     rating |-> form.rating]

Ids(movies) == {movies[i].id : i \in 1..Len(movies)}
MaxOf(S) == CHOOSE x \in S : \A y \in S : y <= x

\* Mutants of NextId: the increment forgotten; the length taken for the maximum.
NextIdNoIncrement(movies) == IF Len(movies) # 0 THEN MaxOf(Ids(movies)) ELSE 1
NextIdByLength(movies) == Len(movies) + 1

\* movies.length ? Math.max(...movies.map(m => m.id)) + 1 : 1
NextId(movies) == IF Len(movies) # 0 THEN MaxOf(Ids(movies)) + 1 ELSE 1

\* Mutant of FindIndex: the predicate ignores the id, the first record is found.
FindIndexFirst(movies, id) == IF Len(movies) > 0 THEN 1 ELSE 0

\* movies.findIndex(m => m.id === id), 0 standing for -1
FindIndex(movies, id) ==
    IF \E i \in 1..Len(movies) : movies[i].id = id
    THEN CHOOSE i \in 1..Len(movies) :
            /\ movies[i].id = id
            /\ \A j \in 1..(i - 1) : movies[j].id # id
    ELSE 0

\* Mutant of Splice: movies.splice(index), which removes up to the end.
SpliceToEnd(movies, index) == SubSeq(movies, 1, index - 1)

\* movies.splice(index, 1)
Splice(movies, index) ==
    [i \in 1..(Len(movies) - 1) |-> IF i < index THEN movies[i] ELSE movies[i + 1]]

\* Mutant of Overwrite: movies[index] = movie, the id is not carried over.
OverwriteNoId(movies, index, movie, id) == [movies EXCEPT ![index] = movie]

\* movies[index] = { ...movie, id }
Overwrite(movies, index, movie, id) ==
    [movies EXCEPT ![index] = [movie EXCEPT !.id = id]]

\* The files fs.unlink(path.join(rootDir, p.slice(1))) removes: the file of
\* that name in the directory the URL prefix names, as the filesystem
\* compares directory names.
UnlinkTarget(p) == [dir |-> p.pre, name |-> p.name]
SameDir(a, b) == a = b \/ (foldCase /\ LowerCase(a) = LowerCase(b))
Hit(p) == {f \in disk : f.name = UnlinkTarget(p).name /\ SameDir(f.dir, UnlinkTarget(p).dir)}

\* The file a record's path is served from (express.static mounts).
Served(p) == [dir |-> StaticMount(p.pre), name |-> p.name]

\* (await fs.readdir(backupDir)).sort().reverse()
\* Mutant of BackupName: the timestamp is written without leading zeros.
BackupNameUnpadded(ts) == IF ts < 10 THEN <<ts>> ELSE <<ts \div 10, ts % 10>>

\* The name of the backup taken at ts, `movies-backup-${toISOString()}.json`:
\* the timestamp in digits of a fixed width (two digits here).
BackupName(ts) == <<ts \div 10, ts % 10>>

\* a < b as Array.prototype.sort() compares two names: unit by unit, a
\* proper prefix first.
RECURSIVE LexLess(_, _)
LexLess(a, b) ==
    IF b = <<>> THEN FALSE
    ELSE IF a = <<>> THEN TRUE
    ELSE IF Head(a) # Head(b) THEN Head(a) < Head(b)
    ELSE LexLess(Tail(a), Tail(b))

FirstName(S) == CHOOSE x \in S : \A y \in S : ~LexLess(BackupName(y), BackupName(x))

\* files.sort()
RECURSIVE Sort(_)
Sort(S) == IF S = {} THEN <<>> ELSE <<FirstName(S)>> \o Sort(S \ {FirstName(S)})
Reverse(seq) == [i \in 1..Len(seq) |-> seq[Len(seq) + 1 - i]]

\* (await fs.readdir(config.backupDir)).sort().reverse()
SortDesc(S) == Reverse(Sort(S))

\* Mutants of PruneList: the reverse forgotten (the newest files are removed);
\* one file too many kept.
PruneListNewest(dir, maxBackups) ==
    IF Cardinality(dir) > maxBackups
    THEN SubSeq(SortDesc(dir), 1, Cardinality(dir) - maxBackups)
    ELSE <<>>
PruneListOffByOne(dir, maxBackups) ==
    IF Cardinality(dir) > maxBackups + 1
    THEN SubSeq(SortDesc(dir), maxBackups + 2, Cardinality(dir))
    ELSE <<>>

\* backups.slice(maxBackups), when backups.length > maxBackups
PruneList(dir, maxBackups) ==
    IF Cardinality(dir) > maxBackups
    THEN SubSeq(SortDesc(dir), maxBackups + 1, Cardinality(dir))
    ELSE <<>>

\* Mutant of Flow: DELETE writes the catalog before it takes the backup.
FlowWriteFirst(op) ==
    CASE op = "add" -> <<"ensure", "backup", "read", "write">>
      [] op = "edit" -> <<"ensure", "read", "backup", "unlink", "write">>
      [] op = "delete" -> <<"ensure", "read", "unlink", "write", "backup">>
      [] OTHER -> <<"ensure", "read">>

\* The order of the stages of each handler.
Flow(op) ==
    CASE op = "add" -> <<"ensure", "backup", "read", "write">>
      [] op = "edit" -> <<"ensure", "read", "backup", "unlink", "write">>
      [] op = "delete" -> <<"ensure", "read", "unlink", "backup", "write">>
      [] OTHER -> <<"ensure", "read">>

\* The status each handler's catch block answers with.
CatchStatus(op) == IF op \in {"add", "edit"} THEN 400 ELSE 500

Respond(r, status) == [r EXCEPT !.pc = "done", !.status = status]
Throw(r) == Respond(r, CatchStatus(r.form.op))

\* The body of a 200 response: res.json(movie), res.json(movies[index]).
Resp(r) ==
    CASE r.form.op = "add" -> r.movie
      [] r.form.op = "edit" -> r.movies[r.index]
      [] OTHER -> NoRec

\* The next stage of the handler; the response once the last stage is over.
Advance(r) ==
    IF r.st < Len(Flow(r.form.op))
    THEN [r EXCEPT !.st = r.st + 1, !.pc = Flow(r.form.op)[r.st + 1]]
    ELSE Respond(r, 200)

\* A failure that a try/catch around the call logs and swallows.
Swallow(r, o) == IF o = "fail" THEN [r EXCEPT !.soft = r.soft + 1] ELSE r

\* Whether the next I/O call may fail: while failures are left to inject.
Outcomes == IF faults < lim.faults THEN {"ok", "fail"} ELSE {"ok"}
Charge(o) == faults' = IF o = "fail" THEN faults + 1 ELSE faults

(***************************************************************************)
(* The browser.  Strings are sequences of characters: the digits 0..9 and  *)
(* one character that is no digit.  Times are in milliseconds.             *)
(***************************************************************************)
\* The greatest `retries` a call is made with (the default), the calls of
\* fetchWithRetry in one behaviour, the half hours that pass in it.
MaxRetries == 3
MaxCalls == 2
MaxTicks == 2
TickMs == 30 * 60 * 1000
StartClock == 2 * TickMs
DefaultCacheDuration == 60 * 60 * 1000

Other == 10
Null == <<>>                    \* getItem of a missing key: falsy, as "" is
Undefined == <<Other, Other>>   \* undefined, as parseInt reads it
Truthy(str) == str # <<>>

\* Number.prototype.toString(): the decimal digits, without leading zeros.
RECURSIVE ToStr(_)
ToStr(n) == IF n < 10 THEN <<n>> ELSE ToStr(n \div 10) \o <<n % 10>>

\* parseInt(str): the value of the leading digits, NaN when there are none.
NaN == [nan |-> TRUE, val |-> 0]
RECURSIVE Leading(_, _)
Leading(str, acc) ==
    IF str = <<>> \/ Head(str) = Other THEN acc
    ELSE Leading(Tail(str), 10 * acc + Head(str))
ParseInt(str) ==
    IF str = <<>> \/ Head(str) = Other THEN NaN
    ELSE [nan |-> FALSE, val |-> Leading(str, 0)]

\* parseInt(window.env?.CACHE_DURATION) || 60 * 60 * 1000
Envs == {Undefined, ToStr(0), ToStr(TickMs)}
CacheDurationOf(env) ==
    IF ParseInt(env).nan \/ ParseInt(env).val = 0 THEN DefaultCacheDuration
    ELSE ParseInt(env).val

\* The scripts that define fetchWithRetry: app.js (movie-detail.js has the
\* same body) handles a 401 and reads CACHE_DURATION; the admin page's does
\* neither.
Scripts == {"app.js", "admin"}
Handles401(script) == script = "app.js"
DurationIn(script, env) ==
    IF script = "app.js" THEN CacheDurationOf(env) ELSE DefaultCacheDuration
Durations == [script \in Scripts |-> {DurationIn(script, env) : env \in Envs}]

\* The value under the cache key: nothing, the JSON text of the catalog as
\* the server sent it at time `at`, or a text JSON.parse rejects.
NoItem == [kind |-> "null", at |-> 0]
Text(at) == [kind |-> "json", at |-> at]
Garbage == [kind |-> "garbage", at |-> 0]

\* Mutant of Fresh: an entry as old as cacheDuration is still served.
FreshInclusive(stamp, t, duration) ==
    ~ParseInt(stamp).nan /\ t - ParseInt(stamp).val <= duration

\* now - parseInt(cachedTimestamp) < cacheDuration (false for NaN)
Fresh(stamp, t, duration) ==
    ~ParseInt(stamp).nan /\ t - ParseInt(stamp).val < duration

\* cached && cachedTimestamp && now - parseInt(cachedTimestamp) < cacheDuration
CacheUsable(cached, stamp, t, duration) ==
    cached.kind # "null" /\ Truthy(stamp) /\ Fresh(stamp, t, duration)

\* The two setItem calls inside one try: both succeed, the first throws
\* (quota), or the second throws after the first has stored the data.
StoreOutcomes == {"stored", "quota", "partial"}
Store(ls, data, t, how) ==
    CASE how = "stored" -> [ls EXCEPT !.cached = data, !.stamp = ToStr(t)]
      [] how = "partial" -> [ls EXCEPT !.cached = data]
      [] OTHER -> ls

\* handleUnauthorized: localStorage.removeItem('jwt_token')
HandleUnauthorized(ls) == [ls EXCEPT !.jwt_token = "null"]

\* What one fetch attempt ends in, and the message of the error it throws.
Responses == {"ok", "401", "500", "network"}
Message(o, script) ==
    CASE o = "401" /\ Handles401(script) -> "Unauthorized: Redirecting to login"
      [] o = "401" -> "HTTP 401: Unauthorized"
      [] o = "500" -> "HTTP 500: Internal Server Error"
      [] OTHER -> "Failed to fetch"
IncludesUnauthorized(msg) ==
    msg \in {"Unauthorized: Redirecting to login", "HTTP 401: Unauthorized"}

\* Mutant of Rethrow: only the last attempt's error is rethrown.
RethrowLastOnly(i, retries, msg, script) == i = retries - 1

\* if (i === retries - 1 || error.message.includes('Unauthorized')) throw error
\* (the admin page's: if (i === retries - 1) throw error)
Rethrow(i, retries, msg, script) ==
    i = retries - 1 \/ (Handles401(script) /\ IncludesUnauthorized(msg))

NoResult == [kind |-> "none", at |-> 0]
NoCall == [pc |-> "idle", n |-> 0, script |-> "", retries |-> 0, i |-> 0,
           now |-> 0, cacheDuration |-> 0, cached |-> NoItem, cachedTimestamp |-> Null,
           log |-> <<>>, how |-> "", from |-> "", result |-> NoResult, done |-> 0]
EmptyStorage == [jwt_token |-> "null", cached |-> NoItem, stamp |-> Null]

\* The admin page before anything is submitted.
NoPage == [isSubmitting |-> FALSE, editingMovieId |-> 0, xhrs |-> {}, sent |-> 0,
           shown |-> "", ignored |-> 0]
BrowserClosed ==
    /\ localStorage = EmptyStorage
    /\ clock = StartClock
    /\ call = NoCall
    /\ page = NoPage

(***************************************************************************)
(* Initial states: the server has started (ensureMoviesFile has run), the  *)
(* catalog holds records with distinct ids whose files are on disk, and    *)
(* the backup directory is empty or already holds maxBackups backups.      *)
(***************************************************************************)
InitStore(catalogs) ==
    /\ \E recs \in catalogs :
          /\ file = [kind |-> "json", recs |-> recs]
          /\ disk = StoredFor(recs)
          /\ lastAddId = IF recs = <<>> THEN 0 ELSE MaxOf(Ids(recs))
    /\ backups \in {{}, 1..MaxBackups}
    /\ now = MaxBackups
    /\ foldCase \in BOOLEAN
    /\ nreq = 0
    /\ faults = 0
    /\ req = [s \in Slots |-> Idle]
    /\ before = [file |-> file, disk |-> disk, backups |-> backups, faults |-> 0]
    /\ lastWriter = 0
    /\ BrowserClosed

Init ==
    /\ InitStore({<<Rec1, Rec2>>})
    /\ lim = [inflight |-> 2, reqs |-> MaxReqs, faults |-> 0, forms |-> "race"]

InitSeq ==
    /\ InitStore(InitCatalogs)
    /\ lim = [inflight |-> 1, reqs |-> MaxSeqReqs, faults |-> MaxFaults, forms |-> "all"]

\* The catalog file has been removed or overwritten from outside since the
\* server started: it is missing, is not JSON, or is JSON but not an array.
CorruptFiles == {[kind |-> k, recs |-> <<>>] : k \in {"missing", "garbled", "object"}}
InitCorrupt ==
    /\ file \in CorruptFiles
    /\ disk = {}
    /\ lastAddId = 0
    /\ backups \in {{}, 1..MaxBackups}
    /\ now = MaxBackups
    /\ foldCase \in BOOLEAN
    /\ nreq = 0
    /\ faults = 0
    /\ req = [s \in Slots |-> Idle]
    /\ before = [file |-> file, disk |-> disk, backups |-> backups, faults |-> 0]
    /\ lastWriter = 0
    /\ BrowserClosed
    /\ lim = [inflight |-> 1, reqs |-> MaxSeqReqs, faults |-> 0, forms |-> "all"]

InitInput ==
    /\ InitStore({<<Rec1, Rec2>>})
    /\ lim = [inflight |-> 1, reqs |-> MaxSeqReqs, faults |-> 0, forms |-> "input"]

(***************************************************************************)
(* A request arrives: multer stores the uploaded files, then the handler   *)
(* runs up to its first await on the catalog.                              *)
(***************************************************************************)
\* Mutant of Uploaded: the upload middleware runs ahead of verifyToken.
UploadedUnverified(form, n) ==
    IF form.op \in {"add", "edit"} /\ UploadResult(form) = "ok"
    THEN (IF form.mf THEN {[dir |-> UploadDir("movie_file", form.category), name |-> MovieName(n)]}
          ELSE {})
         \cup (IF form.pf THEN {[dir |-> UploadDir("poster_file", form.category), name |-> PosterName(n)]}
               ELSE {})
    ELSE {}

Uploaded(form, n) ==
    IF form.op \in {"add", "edit"} /\ Verified(form) /\ UploadResult(form) = "ok"
    THEN (IF form.mf THEN {[dir |-> UploadDir("movie_file", form.category), name |-> MovieName(n)]}
          ELSE {})
         \cup (IF form.pf THEN {[dir |-> UploadDir("poster_file", form.category), name |-> PosterName(n)]}
               ELSE {})
    ELSE {}

\* Mutant of EnterAdd: validateMovie is not awaited, its rejection is lost.
EnterAddUnchecked(r) ==
    IF ~r.form.mf THEN Respond(r, 400)
    ELSE Advance([r EXCEPT !.movie = BuildAdd(r.form, r.n), !.validated = TRUE])

\* POST /movies/add up to `await ensureMoviesFile()`: media required, build,
\* validate.
EnterAdd(r) ==
    IF ~r.form.mf THEN Respond(r, 400)
    ELSE IF ValidateMovie(BuildAdd(r.form, r.n)) # "ok" THEN Respond(r, 400)
    ELSE Advance([r EXCEPT !.movie = BuildAdd(r.form, r.n), !.validated = TRUE])

\* The handler behind the upload middleware of its route.
Handle(r) == IF r.form.op = "add" THEN EnterAdd(r) ELSE Advance(r)

\* verifyToken, upload, then the handler; an upload error goes to the error
\* middleware.
Enter(r) ==
    IF ~Verified(r.form) THEN Respond(r, VerifyToken(r.form.token))
    ELSE IF r.form.op \in {"add", "edit"} /\ UploadResult(r.form) # "ok"
    THEN Respond(r, ErrorHandler(UploadResult(r.form)))
    ELSE Handle(r)

FormsOf(kind) ==
    CASE kind = "race" -> RaceForms
      [] kind = "input" -> InputForms
      [] OTHER -> Forms

Free(t) == req[t].pc \in {"idle", "done"}

Start(s) ==
    /\ Free(s)
    /\ nreq < lim.reqs
    /\ Cardinality({t \in Slots : ~Free(t)}) < lim.inflight
    /\ \A t \in Slots : t < s => ~Free(t)
    /\ \E form \in FormsOf(lim.forms) :
          /\ disk' = disk \cup Uploaded(form, nreq + 1)
          /\ req' = [req EXCEPT ![s] = Enter([Idle EXCEPT !.n = nreq + 1, !.form = form])]
    /\ nreq' = nreq + 1
    /\ before' = [file |-> file, disk |-> disk, backups |-> backups, faults |-> faults]
    /\ UNCHANGED <<file, backups, now, foldCase, faults, lastAddId, lastWriter, lim, cvars>>

(***************************************************************************)
(* ensureMoviesFile: access, read and parse; on any error write "[]".      *)
(***************************************************************************)
Parses == {"json", "object"}      \* the contents JSON.parse accepts

EnsureRead(s) ==
    /\ req[s].pc = "ensure"
    /\ req' = [req EXCEPT ![s] =
                  IF file.kind \in Parses THEN Advance(@) ELSE [@ EXCEPT !.pc = "resetB"]]
    /\ UNCHANGED <<file, disk, backups, now, foldCase, nreq, faults, lastAddId, before, lastWriter, lim, cvars>>

(***************************************************************************)
(* fs.writeFile(moviesFile, data): the file is opened with truncation,     *)
(* and the data are written in a later step.  A write over content that    *)
(* another writer has put there since the truncation leaves that writer's  *)
(* tail behind when the data are shorter: the file is garbled.             *)
(***************************************************************************)
WriteData(r) == IF r.pc \in {"resetB", "resetE"} THEN <<>> ELSE r.movies

\* What the catalog write of DELETE persists: movies.splice(index, 1).
Mutate(r) ==
    IF r.pc = "write" /\ r.form.op = "delete"
    THEN [r EXCEPT !.movies = Splice(r.movies, r.index)]
    ELSE r

WriteBegin(s) ==
    /\ req[s].pc \in {"resetB", "write"}
    /\ \E o \in Outcomes :
          /\ Charge(o)
          /\ file' = IF o = "ok" THEN [kind |-> "trunc", recs |-> <<>>] ELSE file
          /\ req' = [req EXCEPT ![s] =
                        IF o = "ok"
                        THEN [Mutate(@) EXCEPT
                                !.pc = IF req[s].pc = "write" THEN "writeE" ELSE "resetE",
                                !.wrote = IF req[s].pc = "write" THEN "save" ELSE "reset"]
                        ELSE Throw(@)]
    /\ UNCHANGED <<disk, backups, now, foldCase, nreq, lastAddId, before, lastWriter, lim, cvars>>

Written(data) ==
    IF file.kind = "trunc" \/ (file.kind = "json" /\ file.recs = data)
    THEN {[kind |-> "json", recs |-> data]}
    ELSE {[kind |-> "json", recs |-> data], [kind |-> "garbled", recs |-> <<>>]}

WriteEnd(s) ==
    /\ req[s].pc \in {"resetE", "writeE"}
    /\ \E o \in Outcomes :
          /\ Charge(o)
          /\ IF o = "ok"
             THEN /\ file' \in Written(WriteData(req[s]))
                  /\ req' = [req EXCEPT ![s] =
                                [Advance(@) EXCEPT !.prev =
                                    IF req[s].pc = "writeE" /\ req[s].form.op = "add"
                                    THEN lastAddId ELSE 0]]
                  /\ lastAddId' = IF req[s].pc = "writeE" /\ req[s].form.op = "add"
                                  THEN req[s].movie.id ELSE lastAddId
                  /\ lastWriter' = req[s].n
             ELSE /\ file' = file
                  /\ req' = [req EXCEPT ![s] = Throw(@)]
                  /\ UNCHANGED <<lastAddId, lastWriter>>
    /\ UNCHANGED <<disk, backups, now, foldCase, nreq, before, lim, cvars>>

\* Mutant of BackupCopy: the try/catch of backupMoviesFile is missing, a
\* failed copy reaches the handler's catch block.
BackupCopyFatal(s) ==
    /\ req[s].pc = "backup"
    /\ \E o \in Outcomes, ts \in {now, now + 1} :
          /\ o = "fail" => ts = now
          /\ Charge(o)
          /\ now' = ts
          /\ backups' = IF o = "ok" THEN backups \cup {ts} ELSE backups
          /\ req' = [req EXCEPT ![s] =
                        IF o = "ok"
                        THEN [@ EXCEPT !.bakRun = TRUE, !.bak = ts, !.pc = "readdir"]
                        ELSE Throw(Swallow([@ EXCEPT !.bakRun = TRUE], o))]
    /\ UNCHANGED <<file, disk, foldCase, nreq, lastAddId, before, lastWriter, lim, cvars>>

(***************************************************************************)
(* backupMoviesFile: mkdir, read the clock, copy the catalog to            *)
(* movies-backup-<timestamp>.json, then cleanupOldBackups.  Any error is   *)
(* caught and logged.  The clock has millisecond resolution: a backup      *)
(* reads the value the previous backup read, or a later one.               *)
(***************************************************************************)
BackupCopy(s) ==
    /\ req[s].pc = "backup"
    /\ \E o \in Outcomes, ts \in {now, now + 1} :
          /\ o = "fail" => ts = now
          /\ Charge(o)
          /\ now' = ts
          /\ backups' = IF o = "ok" THEN backups \cup {ts} ELSE backups
          /\ req' = [req EXCEPT ![s] =
                        IF o = "ok"
                        THEN [@ EXCEPT !.bakRun = TRUE, !.bak = ts, !.pc = "readdir"]
                        ELSE Advance(Swallow([@ EXCEPT !.bakRun = TRUE], o))]
    /\ UNCHANGED <<file, disk, foldCase, nreq, lastAddId, before, lastWriter, lim, cvars>>

\* cleanupOldBackups: readdir, sort, reverse, slice.
Readdir(s) ==
    /\ req[s].pc = "readdir"
    /\ \E o \in Outcomes :
          /\ Charge(o)
          /\ LET list == IF o = "ok" THEN PruneList(backups, MaxBackups) ELSE <<>>
             IN req' = [req EXCEPT ![s] =
                           IF list # <<>>
                           THEN [@ EXCEPT !.todel = list, !.pc = "prune"]
                           ELSE Advance(Swallow(@, o))]
    /\ UNCHANGED <<file, disk, backups, now, foldCase, nreq, lastAddId, before, lastWriter, lim, cvars>>

\* cleanupOldBackups: one fs.unlink of the loop; an error (the file is gone,
\* or the call fails) ends the loop in the catch block.
PruneUnlink(s) ==
    /\ req[s].pc = "prune"
    /\ \E o \in Outcomes :
          /\ o = "fail" => Head(req[s].todel) \in backups
          /\ Charge(o)
          /\ IF o = "ok" /\ Head(req[s].todel) \in backups
             THEN /\ backups' = backups \ {Head(req[s].todel)}
                  /\ req' = [req EXCEPT ![s] =
                                IF Tail(@.todel) = <<>>
                                THEN Advance([@ EXCEPT !.todel = <<>>])
                                ELSE [@ EXCEPT !.todel = Tail(req[s].todel)]]
             ELSE /\ backups' = backups
                  /\ req' = [req EXCEPT ![s] = Advance(Swallow([@ EXCEPT !.todel = <<>>], o))]
    /\ UNCHANGED <<file, disk, now, foldCase, nreq, lastAddId, before, lastWriter, lim, cvars>>

(***************************************************************************)
(* JSON.parse(await fs.readFile(moviesFile)) and the handler's code up to  *)
(* its next await.                                                         *)
(***************************************************************************)
\* Mutant of ReadAdd: movies.push(movie) forgotten.
ReadAddNoPush(r, movies) ==
    Advance([r EXCEPT !.movie = [r.movie EXCEPT !.id = NextId(movies)], !.movies = movies])

ReadAdd(r, movies) ==
    Advance([r EXCEPT !.movie = [r.movie EXCEPT !.id = NextId(movies)],
                      !.movies = Append(movies, [r.movie EXCEPT !.id = NextId(movies)])])

ReadEdit(r, movies) ==
    IF FindIndex(movies, r.form.id) = 0 THEN Respond(r, 404)
    ELSE IF ValidateMovie(BuildEdit(r.form, r.n, movies[FindIndex(movies, r.form.id)])) # "ok"
    THEN Respond([r EXCEPT !.movies = movies], 400)
    ELSE Advance([r EXCEPT !.movies = movies,
                           !.index = FindIndex(movies, r.form.id),
                           !.old = movies[FindIndex(movies, r.form.id)],
                           !.movie = BuildEdit(r.form, r.n, movies[FindIndex(movies, r.form.id)]),
                           !.validated = TRUE])

ReadDelete(r, movies) ==
    IF FindIndex(movies, r.form.id) = 0 THEN Respond(r, 404)
    ELSE Advance([r EXCEPT !.movies = movies,
                           !.index = FindIndex(movies, r.form.id),
                           !.movie = movies[FindIndex(movies, r.form.id)]])

ReadGet(r, movies) == Advance([r EXCEPT !.movies = movies])

\* The file holds JSON that is not an array: GET answers with it; in the
\* other handlers movies.push / movies.findIndex is not a function, and the
\* TypeError reaches the catch block.
ReadObject(r) == IF r.form.op = "get" THEN Respond(r, 200) ELSE Throw(r)

ReadCatalog(s) ==
    /\ req[s].pc = "read"
    /\ req' = [req EXCEPT ![s] =
                  IF file.kind = "object" THEN ReadObject(@)
                  ELSE IF file.kind # "json" THEN Throw(@)
                  ELSE CASE @.form.op = "add" -> ReadAdd(@, file.recs)
                         [] @.form.op = "edit" -> ReadEdit(@, file.recs)
                         [] @.form.op = "delete" -> ReadDelete(@, file.recs)
                         [] OTHER -> ReadGet(@, file.recs)]
    /\ UNCHANGED <<file, disk, backups, now, foldCase, nreq, faults, lastAddId, before, lastWriter, lim, cvars>>

(***************************************************************************)
(* The best-effort fs.unlink calls: edit removes the old record's file for *)
(* each field that received an upload (after movies[index] = ...), delete  *)
(* removes the record's files.  Errors are caught and logged.              *)
(***************************************************************************)
UnlinkPaths(r) ==
    IF r.form.op = "edit"
    THEN (IF r.form.mf /\ r.old.file_path # NoPath THEN {r.old.file_path} ELSE {})
         \cup (IF r.form.pf /\ r.old.poster # NoPath THEN {r.old.poster} ELSE {})
    ELSE {r.movie.file_path, r.movie.poster} \ {NoPath}

UnlinkFiles(s) ==
    /\ req[s].pc = "unlink"
    /\ \E o \in Outcomes :
          /\ o = "fail" => UnlinkPaths(req[s]) # {}
          /\ Charge(o)
          /\ disk' = IF o = "ok" THEN disk \ UNION {Hit(p) : p \in UnlinkPaths(req[s])} ELSE disk
          /\ req' = [req EXCEPT ![s] =
                        Advance(Swallow(IF @.form.op = "edit"
                                        THEN [@ EXCEPT !.movies = Overwrite(req[s].movies, req[s].index,
                                                                            req[s].movie, req[s].form.id)]
                                        ELSE @, o))]
    /\ UNCHANGED <<file, backups, now, foldCase, nreq, lastAddId, before, lastWriter, lim, cvars>>

Next ==
    \E s \in Slots :
        \/ Start(s)
        \/ EnsureRead(s)
        \/ WriteBegin(s)
        \/ WriteEnd(s)
        \/ BackupCopy(s)
        \/ Readdir(s)
        \/ PruneUnlink(s)
        \/ ReadCatalog(s)
        \/ UnlinkFiles(s)

\* Two requests in flight at a time, no I/O failure.
Spec == Init /\ [][Next]_vars

\* One request at a time, with I/O failures.
SpecSeq == InitSeq /\ [][Next]_vars

\* One request at a time, with uploads and fields the middleware and
\* validateMovie may reject.
SpecInput == InitInput /\ [][Next]_vars

\* One request at a time on a catalog file that is missing or corrupt.
SpecCorrupt == InitCorrupt /\ [][Next]_vars

(***************************************************************************)
(* fetchWithRetry(url, retries, delay) in the browser, for the one URL the *)
(* pages ask for (the catalog), one call at a time.  The server is at rest *)
(* and answers each attempt with any of Responses.                         *)
(***************************************************************************)
ServerAtRest ==
    /\ file = [kind |-> "json", recs |-> <<Rec1, Rec2>>]
    /\ disk = StoredFor(<<Rec1, Rec2>>)
    /\ lastAddId = 2
    /\ backups = {}
    /\ now = MaxBackups
    /\ foldCase = FALSE
    /\ nreq = 0
    /\ faults = 0
    /\ req = [s \in Slots |-> Idle]
    /\ before = [file |-> file, disk |-> disk, backups |-> backups, faults |-> 0]
    /\ lastWriter = 0
    /\ lim = [inflight |-> 0, reqs |-> 0, faults |-> 0, forms |-> "none"]

\* What localStorage may hold when a page is opened: nothing, an entry an
\* earlier visit stored half an hour ago, or an entry damaged since (a text
\* that does not parse, a timestamp that is no number).
StoredBefore ==
    {[cached |-> NoItem, stamp |-> Null],
     [cached |-> Text(StartClock - TickMs), stamp |-> ToStr(StartClock - TickMs)],
     [cached |-> Garbage, stamp |-> ToStr(StartClock - TickMs)],
     [cached |-> Text(StartClock - TickMs), stamp |-> Undefined]}
InitFetch ==
    /\ ServerAtRest
    /\ \E c \in StoredBefore, t \in {"null", "token"} :
          localStorage = [jwt_token |-> t, cached |-> c.cached, stamp |-> c.stamp]
    /\ clock = StartClock
    /\ call = NoCall
    /\ page = NoPage

\* The call up to its first await: the cache is read and, when it is usable
\* and parses, returned; with retries = 0 the loop body never runs and the
\* function returns undefined.
Begin(n, script, retries, duration) ==
    [NoCall EXCEPT !.n = n, !.script = script, !.retries = retries,
                   !.now = clock, !.cacheDuration = duration,
                   !.cached = localStorage.cached, !.cachedTimestamp = localStorage.stamp]
Return(c, from, result) ==
    [c EXCEPT !.pc = "returned", !.from = from, !.result = result, !.done = clock]
Call ==
    /\ call.pc \in {"idle", "returned", "threw"}
    /\ call.n < MaxCalls
    /\ \E script \in Scripts, retries \in 0..MaxRetries :
          \E duration \in Durations[script] :
             call' =
                IF CacheUsable(localStorage.cached, localStorage.stamp, clock, duration)
                   /\ localStorage.cached.kind = "json"
                THEN Return(Begin(call.n + 1, script, retries, duration),
                            "cache", [kind |-> "data", at |-> localStorage.cached.at])
                ELSE IF retries = 0
                THEN Return(Begin(call.n + 1, script, retries, duration),
                            "", [kind |-> "undefined", at |-> 0])
                ELSE [Begin(call.n + 1, script, retries, duration) EXCEPT !.pc = "fetch"]
    /\ UNCHANGED <<localStorage, clock, page, svars>>

\* One pass of the loop body: the fetch, the response, the cache write, and
\* the catch block.  A rejected fetch and a body that is not JSON throw into
\* the same catch block as a response that is not ok.
Attempt ==
    /\ call.pc = "fetch"
    /\ \E o \in Responses, how \in StoreOutcomes :
          /\ o # "ok" => how = "stored"
          /\ localStorage' =
                IF o = "ok" THEN Store(localStorage, Text(clock), call.now, how)
                ELSE IF o = "401" /\ Handles401(call.script) THEN HandleUnauthorized(localStorage)
                ELSE localStorage
          /\ call' =
                IF o = "ok"
                THEN Return([call EXCEPT !.log = Append(@, o), !.how = how],
                            "network", [kind |-> "data", at |-> clock])
                ELSE IF Rethrow(call.i, call.retries, Message(o, call.script), call.script)
                THEN [call EXCEPT !.log = Append(@, o), !.pc = "threw", !.done = clock]
                ELSE [call EXCEPT !.log = Append(@, o), !.pc = "wait"]
    /\ UNCHANGED <<clock, page, svars>>

\* await new Promise(resolve => setTimeout(resolve, delay)); i++
Delay ==
    /\ call.pc = "wait"
    /\ call' = [call EXCEPT !.pc = "fetch", !.i = @ + 1]
    /\ UNCHANGED <<localStorage, clock, page, svars>>

\* Half an hour passes.
Tick ==
    /\ clock < StartClock + MaxTicks * TickMs
    /\ clock' = clock + TickMs
    /\ UNCHANGED <<localStorage, call, page, svars>>

NextFetch ==
    \/ Call
    \/ Attempt
    \/ Delay
    \/ Tick

\* The calls of fetchWithRetry a visitor's pages make, as time passes.
SpecFetch == InitFetch /\ [][NextFetch]_vars

(***************************************************************************)
(* The admin page: the form's submit handler addMovie, editMovie, and the  *)
(* callbacks of the requests it sent.  editingMovieId is 0 for null.       *)
(***************************************************************************)
MaxSubmits == 3

InitForm ==
    /\ ServerAtRest
    /\ localStorage = [EmptyStorage EXCEPT !.jwt_token = "token"]
    /\ clock = StartClock
    /\ call = NoCall
    /\ page = NoPage

\* editMovie(id): the form is filled from the record, editingMovieId = id.
EditMovie ==
    /\ \E id \in TargetIds :
          /\ page.editingMovieId # id
          /\ page' = [page EXCEPT !.editingMovieId = id]
    /\ UNCHANGED <<localStorage, clock, call, svars>>

\* xhr.open('POST', editingMovieId ? '/movies/edit/<id>' : '/movies/add'); xhr.send(formData)
Send(p) ==
    [p EXCEPT !.xhrs = @ \cup {[n |-> p.sent + 1, id |-> p.editingMovieId]},
              !.sent = @ + 1]

\* addMovie(event), which has no await: the guard, isSubmitting = true,
\* validateMovieForm, the request sent, and `finally { isSubmitting = false }`
\* all run before any other event is handled.
AddMovie(p, valid) ==
    IF p.isSubmitting THEN [p EXCEPT !.ignored = @ + 1]
    ELSE IF ~valid
    THEN [[p EXCEPT !.isSubmitting = TRUE] EXCEPT !.shown = "invalid", !.isSubmitting = FALSE]
    ELSE [Send([p EXCEPT !.isSubmitting = TRUE]) EXCEPT !.isSubmitting = FALSE]

\* The submit event of the form.
Submit ==
    /\ page.sent < MaxSubmits
    /\ \E valid \in BOOLEAN : page' = AddMovie(page, valid)
    /\ UNCHANGED <<localStorage, clock, call, svars>>

\* xhr.onload: a 2xx status reloads the table and resets the form
\* (editingMovieId = null); another status shows the error.
OnLoad ==
    /\ \E x \in page.xhrs, status \in {200, 400, 401, 500} :
          page' = IF status >= 200 /\ status < 300
                  THEN [page EXCEPT !.xhrs = @ \ {x}, !.editingMovieId = 0, !.shown = "saved"]
                  ELSE [page EXCEPT !.xhrs = @ \ {x}, !.shown = "error"]
    /\ UNCHANGED <<localStorage, clock, call, svars>>

\* xhr.onerror
OnError ==
    /\ \E x \in page.xhrs :
          page' = [page EXCEPT !.xhrs = @ \ {x}, !.shown = "network"]
    /\ UNCHANGED <<localStorage, clock, call, svars>>

NextForm ==
    \/ EditMovie
    \/ Submit
    \/ OnLoad
    \/ OnError

\* What the admin does with the form, and the answers that arrive.
SpecForm == InitForm /\ [][NextForm]_vars

(***************************************************************************)
(* Properties.                                                             *)
(***************************************************************************)
Done(s) == req[s].pc = "done"
Latest(s) == req[s].n = nreq /\ nreq > 0
Mutating(r) == r.form.op \in {"add", "edit", "delete"}
Quiet == \A s \in Slots : Free(s)
Acked(s, op) == Done(s) /\ req[s].status = 200 /\ req[s].form.op = op
Range(seq) == {seq[i] : i \in 1..Len(seq)}
Exists(p) == Served(p) \in disk
RefFiles(recs) ==
    {Served(r.file_path) : r \in {x \in Range(recs) : x.file_path # NoPath}}
    \cup {Served(r.poster) : r \in {x \in Range(recs) : x.poster # NoPath}}

\* C1: whenever the catalog file holds a record array, no two of its records
\* have the same id, whatever add, edit and delete requests have run and
\* however their steps interleaved.
IdsUnique ==
    file.kind = "json" =>
        \A i, j \in 1..Len(file.recs) : i # j => file.recs[i].id # file.recs[j].id

\* Two adds were in flight together, both were answered 200, and the catalog
\* holds three records.
IdsUniqueWitness ==
    /\ file.kind = "json" /\ Len(file.recs) >= 3
    /\ \A s \in Slots : Acked(s, "add")

\* C2: two adds that both returned success, neither having read the other's
\* record, leave exactly one of their two records in the catalog file (while
\* one of them is the file's last writer): the other acknowledged add is lost.
InFile(r) == file.kind = "json" /\ r.movie \in Range(file.recs)
Raced(s, t) ==
    /\ s # t /\ Acked(s, "add") /\ Acked(t, "add")
    /\ req[t].movie \notin Range(req[s].movies)
    /\ req[s].movie \notin Range(req[t].movies)
    /\ file.kind = "json"
    /\ lastWriter \in {req[s].n, req[t].n}
LostUpdate ==
    \A s, t \in Slots : Raced(s, t) => (InFile(req[s]) # InFile(req[t]))

\* Both adds have answered 200 and the catalog holds the second one's record only.
LostUpdateWitness ==
    \E s, t \in Slots : Raced(s, t) /\ ~InFile(req[s]) /\ InFile(req[t])

\* C3 (as claimed): a request that has written the catalog file has run its
\* backup before, and a backup of add or edit is run only after validation.
BackupBeforeAnyWrite ==
    \A s \in Slots :
        Mutating(req[s]) =>
            /\ req[s].wrote # "none" => req[s].bakRun
            /\ req[s].bakRun /\ req[s].form.op \in {"add", "edit"} => req[s].validated

\* C3 (amended): a request that has begun to write its modified collection to
\* the catalog file has run its backup before (the reset of an unreadable
\* file by ensureMoviesFile may come before the backup), and a backup of add
\* or edit is run only after validateMovie has accepted the record.
BackupBeforeSave ==
    \A s \in Slots :
        Mutating(req[s]) =>
            /\ req[s].wrote = "save" => req[s].bakRun
            /\ req[s].bakRun /\ req[s].form.op \in {"add", "edit"} => req[s].validated

\* A delete is writing its collection, and its backup file is in the directory.
BackupBeforeSaveWitness ==
    \E s \in Slots :
        /\ req[s].form.op = "delete" /\ req[s].wrote = "save"
        /\ req[s].bakRun /\ req[s].bak \in backups

\* C4 (as claimed): after a request that returned success, the backup
\* directory holds a file it did not hold when the request arrived.
NewBackupAfterSuccess ==
    \A s \in Slots :
        Done(s) /\ Latest(s) /\ req[s].status = 200 /\ Mutating(req[s])
            => backups \ before.backups # {}

\* C4 (amended): with requests run one at a time, after a request that
\* returned success and whose backup copy succeeded under a timestamp no
\* earlier backup carries, the file that copy wrote is in the backup
\* directory (pruning has not removed it) and was not there when the request
\* arrived.
NewBackupWhenCopied ==
    \A s \in Slots :
        /\ Done(s) /\ Latest(s) /\ req[s].status = 200 /\ Mutating(req[s])
        /\ req[s].bak # -1 /\ req[s].bak \notin before.backups
        => req[s].bak \in backups \ before.backups

\* A request succeeded on a full backup directory: its backup is there after
\* pruning.
NewBackupWitness ==
    \E s \in Slots :
        /\ Done(s) /\ Latest(s) /\ req[s].status = 200 /\ Mutating(req[s])
        /\ Cardinality(before.backups) = MaxBackups
        /\ req[s].bak \in backups \ before.backups
        /\ Cardinality(backups) = MaxBackups

AddReturnsMaxPlusOne ==
    \A s \in Slots :
        Acked(s, "add") /\ Latest(s) =>
            IF before.file.recs = <<>>
            THEN Resp(req[s]).id = 1
            ELSE /\ Resp(req[s]).id - 1 \in Ids(before.file.recs)
                 /\ \A i \in Ids(before.file.recs) : i < Resp(req[s]).id

\* An add on a catalog that holds records has returned its record.
AddReturnsMaxPlusOneWitness ==
    \E s \in Slots :
        Acked(s, "add") /\ Latest(s) /\ before.file.recs # <<>> /\ Resp(req[s]).id >= 2

\* C7 (as claimed): the id a successful add returns is greater than the id
\* the previous successful add returned.
AddIdsIncrease ==
    \A s \in Slots :
        Acked(s, "add") /\ Latest(s) /\ req[s].prev > 0 => Resp(req[s]).id > req[s].prev

\* C7 (amended): with requests run one at a time, the id a successful add
\* returns is greater than the id the previous successful add returned as
\* long as that previous record is still in the catalog; once the record
\* with the greatest id is deleted, its id is assigned again.
AddIdsIncreaseWhileKept ==
    \A s \in Slots :
        /\ Acked(s, "add") /\ Latest(s) /\ req[s].prev > 0
        /\ req[s].prev \in Ids(before.file.recs)
        => Resp(req[s]).id > req[s].prev

\* A second add has succeeded while the previous add's record was in the catalog.
AddIdsIncreaseWitness ==
    \E s \in Slots :
        /\ Acked(s, "add") /\ Latest(s) /\ req[s].prev > 0
        /\ req[s].prev \in Ids(before.file.recs)
        /\ lastAddId = req[s].prev + 1

\* C8: an add without a movie file, or whose record validateMovie rejects,
\* is answered 400 at once, and the catalog file and the backup directory
\* are as they were when the request arrived.
Rejected(r) == r.form.op = "add" /\ (~r.form.mf \/ ValidateMovie(BuildAdd(r.form, r.n)) # "ok")
RejectedAddLeavesStore ==
    \A s \in Slots :
        Latest(s) /\ Rejected(req[s]) =>
            /\ Done(s) /\ req[s].status = 400
            /\ file = before.file /\ backups = before.backups

\* An add with an uploaded movie file and an empty title has been rejected
\* on a catalog that holds records.
RejectedAddWitness ==
    \E s \in Slots :
        /\ Latest(s) /\ Rejected(req[s]) /\ req[s].form.mf
        /\ Done(s) /\ req[s].status = 400 /\ file.recs # <<>>

\* C9: after an add, edit or delete that answered with an error, the catalog
\* file is as it was when the request arrived, and so are the media and
\* poster files its records reference.
ErrorLeavesAllUnchanged ==
    \A s \in Slots :
        Done(s) /\ Latest(s) /\ Mutating(req[s]) /\ req[s].status >= 400 =>
            /\ file = before.file
            /\ (RefFiles(before.file.recs) \cap before.disk) \subseteq disk

\* C10: between requests, every media file and poster a catalog record
\* names, and that was on disk when the latest request arrived, is still on
\* disk: no record references a file that an edit or delete has removed.
Kept(p) == p # NoPath /\ Served(p) \in before.disk => Exists(p)
RecordsReferenceFiles ==
    Quiet /\ file.kind = "json" =>
        \A r \in Range(file.recs) : Kept(r.file_path) /\ Kept(r.poster)

\* C11: when a successful edit or delete has completed, every media or
\* poster file that a catalog record named when the request arrived, and
\* that no record names any more, is gone from the disk.
Orphans == (RefFiles(before.file.recs) \cap before.disk) \ RefFiles(file.recs)
UnreferencedFilesRemoved ==
    \A s \in Slots :
        Latest(s) /\ (Acked(s, "edit") \/ Acked(s, "delete")) /\ file.kind = "json"
            => Orphans \cap disk = {}

\* C12: a successful edit that uploads a new movie_file returns a record
\* whose file_path is served from the newly stored file, and the media file
\* the record named before the edit is no longer on disk.
EditReplacesMedia ==
    \A s \in Slots :
        Latest(s) /\ Acked(s, "edit") /\ req[s].form.mf =>
            /\ Served(Resp(req[s]).file_path)
                   = [dir |-> UploadDir("movie_file", req[s].form.category), name |-> MovieName(req[s].n)]
            /\ Exists(Resp(req[s]).file_path)
            /\ req[s].old.file_path # NoPath => ~Exists(req[s].old.file_path)

\* C13: with requests run one at a time, a successful delete of an existing
\* id leaves the catalog file holding the previous records without the one
\* of that id, the others unchanged and in their order, and a GET returns
\* the records the catalog file holds: the reads that follow the delete, up
\* to the next mutating request, do not contain the record.
Without(movies, id) == SelectSeq(movies, LAMBDA m : m.id # id)
DeleteRemovesRecord ==
    \A s \in Slots :
        Latest(s) /\ before.file.kind = "json" =>
            /\ Acked(s, "delete") =>
                  /\ file.kind = "json"
                  /\ req[s].form.id \notin Ids(file.recs)
                  /\ file.recs = Without(before.file.recs, req[s].form.id)
            /\ Acked(s, "get") => req[s].movies = before.file.recs

\* The GET that follows the delete of record 1 has returned record 2 alone.
DeleteRemovesRecordWitness ==
    \E s \in Slots :
        Latest(s) /\ Acked(s, "get") /\ nreq = 2 /\ req[s].movies = <<Rec2>>

\* C14: an edit or delete for an id that no catalog record has answers 404,
\* and the catalog file, the media and poster files that were on disk, and
\* the backup directory are as they were when the request arrived.
AbsentId(r) ==
    /\ r.form.op \in {"edit", "delete"}
    /\ before.file.kind = "json"
    /\ r.form.id \notin Ids(before.file.recs)
NotFoundChangesNothing ==
    \A s \in Slots :
        Latest(s) /\ Done(s) /\ AbsentId(req[s]) =>
            /\ req[s].status = 404
            /\ file = before.file
            /\ before.disk \subseteq disk
            /\ backups = before.backups

\* Record 1 has been deleted, and a second request for id 1 has answered 404
\* while record 2 is in the catalog.
NotFoundWitness ==
    \E s \in Slots :
        /\ Latest(s) /\ Done(s) /\ AbsentId(req[s]) /\ req[s].status = 404
        /\ file.recs = <<Rec2>>

\* C16: with requests run one at a time, a successful edit leaves a catalog
\* of the same length, in which the record at the edited position has the
\* id it had and every other record is as it was.
EditOverwritesInPlace ==
    \A s \in Slots :
        Latest(s) /\ Acked(s, "edit") =>
            /\ file.kind = "json" /\ before.file.kind = "json"
            /\ Len(file.recs) = Len(before.file.recs)
            /\ \A i \in 1..Len(file.recs) :
                  /\ file.recs[i].id = before.file.recs[i].id
                  /\ before.file.recs[i].id # req[s].form.id => file.recs[i] = before.file.recs[i]
            /\ Resp(req[s]).id = req[s].form.id
            /\ Resp(req[s]) \in Range(file.recs)

\* An edit of record 2 has changed its title and category; record 1 is as it was.
EditOverwritesWitness ==
    \E s \in Slots :
        /\ Latest(s) /\ Acked(s, "edit") /\ req[s].form.id = 2
        /\ Len(file.recs) = 2 /\ file.recs[1] = Rec1
        /\ file.recs[2].id = 2 /\ file.recs[2].title = "e"

\* C17: with requests run one at a time, an add, edit or delete in which the
\* backup copy, the pruning, or the deletion of a media or poster file has
\* failed, and no other call has, answers 200 with its collection in the
\* catalog file.
OnlySwallowed(r) == r.soft > 0 /\ faults = before.faults + r.soft
BestEffortFailuresNotFatal ==
    \A s \in Slots :
        Latest(s) /\ Done(s) /\ Mutating(req[s]) /\ OnlySwallowed(req[s]) =>
            /\ req[s].status = 200
            /\ file = [kind |-> "json", recs |-> req[s].movies]

\* A delete of record 1 in which one of these calls failed has answered 200,
\* and the catalog holds record 2 alone.
BestEffortFailuresWitness ==
    \E s \in Slots :
        /\ Latest(s) /\ Acked(s, "delete") /\ OnlySwallowed(req[s])
        /\ file.recs = <<Rec2>>

\* C15: a request that has accessed a catalog file that was missing or did
\* not hold a JSON array has left a JSON array in the file and has not
\* answered with a server error; an add has gone on and succeeded.
Accessed(r) == r.st > 0
CorruptFileIsReset ==
    \A s \in Slots :
        Latest(s) /\ Done(s) /\ Accessed(req[s]) /\ before.file.kind # "json" =>
            /\ file.kind = "json"
            /\ req[s].status # 500
            /\ req[s].form.op = "add" => req[s].status = 200

\* C18: an add or edit whose upload has a missing or unknown category, a
\* file in a field other than movie_file and poster_file, or a file whose
\* MIME type its field does not accept, is answered 400, and the catalog
\* file is as it was.
BadUpload(form) ==
    /\ form.op \in {"add", "edit"}
    /\ Parts(form) # <<>>
    /\ \/ form.category \notin Categories
       \/ form.xf
       \/ form.mf /\ form.mmime \notin {"video", "audio"}
       \/ form.pf /\ form.pmime # "image"
BadUploadIs400 ==
    \A s \in Slots :
        Latest(s) /\ BadUpload(req[s].form) =>
            /\ Done(s) /\ req[s].status = 400
            /\ file = before.file

\* C19: of an upload that is well-formed otherwise, a movie_file above
\* 500MB is rejected and not stored, a poster_file above 10MB is rejected
\* and not stored, and the files of an upload within both limits are stored.
MovieStored(s) ==
    [dir |-> UploadDir("movie_file", req[s].form.category), name |-> MovieName(req[s].n)] \in disk
PosterStored(s) ==
    [dir |-> UploadDir("poster_file", req[s].form.category), name |-> PosterName(req[s].n)] \in disk
Refused(s) == Done(s) /\ req[s].status = 400 /\ ~Accessed(req[s])
SizeLimitsPerField ==
    \A s \in Slots :
        /\ Latest(s) /\ req[s].form.op \in {"add", "edit"}
        /\ Parts(req[s].form) # <<>> /\ ~BadUpload(req[s].form)
        => /\ req[s].form.mf /\ req[s].form.msize > FileSizeLimit
                 => Refused(s) /\ ~MovieStored(s)
           /\ req[s].form.pf /\ req[s].form.psize > PosterSizeStated
                 => Refused(s) /\ ~PosterStored(s)
           /\ /\ req[s].form.mf => req[s].form.msize <= FileSizeLimit
              /\ req[s].form.pf => req[s].form.psize <= PosterSizeStated
              => /\ req[s].form.mf => MovieStored(s)
                 /\ req[s].form.pf => PosterStored(s)

\* C20: an add or edit, valid otherwise, whose rating is a number below 0 or
\* above 10 is answered 400 and the catalog file and the backup directory
\* stay as they were; one whose rating is a number from 0 to 10, bounds
\* included, is not rejected: it ends with 200 and its record, with that
\* rating, is in the catalog.
Rated(s) ==
    /\ Latest(s) /\ req[s].form.op \in {"add", "edit"}
    /\ UploadResult(req[s].form) = "ok"
    /\ req[s].form.title # "" /\ req[s].form.category \in Categories
    /\ req[s].form.op = "add" => req[s].form.mf
    /\ req[s].form.op = "edit" => req[s].form.id \in Ids(before.file.recs)
    /\ req[s].form.rating.kind = "num"
RatingInRange(s) == 0 <= req[s].form.rating.val /\ req[s].form.rating.val <= 100
RatingBounds ==
    \A s \in Slots :
        Rated(s) =>
            IF RatingInRange(s)
            THEN Done(s) => /\ req[s].status = 200
                            /\ Resp(req[s]).rating = req[s].form.rating
                            /\ Resp(req[s]) \in Range(file.recs)
            ELSE /\ Done(s) => req[s].status = 400
                 /\ req[s].pc \in {"ensure", "read", "done"}
                 /\ file = before.file /\ backups = before.backups

\* An add with rating 10 has been stored, and an add with rating 10.1 after
\* it has been answered 400.
RatingBoundsWitness ==
    \E s \in Slots :
        /\ Rated(s) /\ Done(s) /\ req[s].status = 400
        /\ req[s].form.rating = Num(101)
        /\ \E m \in Range(file.recs) : m.rating = Num(100)

\* C21: add, edit and delete run only for a verified caller: a request with
\* no token, or with a token jwt.verify rejects, is answered 401 at once, and
\* no upload is stored, the catalog file is not changed and no backup is made.
Unverified(s) ==
    Latest(s) /\ Guarded(req[s].form) /\ req[s].form.token \in Tokens \ Signed
UnverifiedIs401 ==
    \A s \in Slots :
        Unverified(s) =>
            /\ Done(s) /\ req[s].status = 401
            /\ disk = before.disk /\ file = before.file /\ backups = before.backups

\* An add with files and a forged token has been answered 401, after an
\* earlier request of the admin changed the catalog.
UnverifiedIs401Witness ==
    \E s \in Slots :
        /\ Unverified(s) /\ req[s].form.op = "add" /\ req[s].form.mf
        /\ req[s].form.token = "forged" /\ req[s].status = 401
        /\ nreq = 2 /\ lastWriter = 1

\* C22: a successful edit that uploads no new movie_file and sends no
\* file_path override answers with, and saves, the record's previous
\* file_path, and the file it names is still on disk; likewise for the poster
\* with poster_file and the poster override.
EditedRecord(s) == file.recs[req[s].index]
KeepsMedia(s) ==
    ~req[s].form.mf /\ req[s].form.file_path = NoPath =>
        /\ Resp(req[s]).file_path = req[s].old.file_path
        /\ EditedRecord(s).file_path = req[s].old.file_path
        /\ Kept(req[s].old.file_path)
KeepsPoster(s) ==
    ~req[s].form.pf /\ req[s].form.poster = NoPath =>
        /\ Resp(req[s]).poster = req[s].old.poster
        /\ EditedRecord(s).poster = req[s].old.poster
        /\ Kept(req[s].old.poster)
EditKeepsPaths ==
    \A s \in Slots :
        Latest(s) /\ Acked(s, "edit") /\ file.kind = "json"
            => KeepsMedia(s) /\ KeepsPoster(s)

\* An edit that uploaded a poster and no movie file has succeeded: the record
\* has its old file_path, that file is on disk, and the poster is the new one.
EditKeepsPathsWitness ==
    \E s \in Slots :
        /\ Latest(s) /\ Acked(s, "edit") /\ file.kind = "json"
        /\ req[s].form.pf /\ ~req[s].form.mf
        /\ req[s].old.file_path # NoPath
        /\ EditedRecord(s).file_path = req[s].old.file_path
        /\ Exists(req[s].old.file_path)
        /\ EditedRecord(s).poster # req[s].old.poster

\* C23: after a pruning that ran to its end without a filesystem failure on
\* a directory holding more than maxBackups (10) files, the files that remain
\* are exactly the 10 with the greatest names, which are the 10 most recent
\* backups; every other file has been deleted.
MostRecent(S, k) == {x \in S : Cardinality({y \in S : y > x}) < k}
Pruned(s) ==
    /\ Latest(s) /\ req[s].bak # -1 /\ req[s].soft = 0
    /\ req[s].pc \notin {"readdir", "prune"}
    /\ Cardinality(before.backups \cup {req[s].bak}) > MaxBackups
PruneKeepsNewest ==
    \A s \in Slots :
        Pruned(s) => backups = MostRecent(before.backups \cup {req[s].bak}, MaxBackups)

\* A pruning has ended on a directory that held 12 files: two were deleted,
\* and the 10 left include the backup just taken.
PruneKeepsNewestWitness ==
    \E s \in Slots :
        /\ Pruned(s)
        /\ Cardinality(before.backups \cup {req[s].bak}) = MaxBackups + 2
        /\ Cardinality(backups) = MaxBackups
        /\ req[s].bak \in backups

\* C24: a call of fetchWithRetry makes at most `retries` attempts: it returns
\* on the first attempt that succeeds, it rethrows when attempt number
\* `retries` has failed, and in app.js and movie-detail.js a 401 response
\* ends the loop at once, with the token removed; no attempt follows a
\* success or a 401.
Attempts == Len(call.log)
EndsLoop(o) == o = "ok" \/ (o = "401" /\ Handles401(call.script))
RetryBounded ==
    /\ Attempts <= call.retries
    /\ \A j \in 1..(Attempts - 1) : ~EndsLoop(call.log[j])
    /\ call.pc = "returned" /\ call.from = "network" => call.log[Attempts] = "ok"
    /\ call.pc = "threw" =>
          /\ Attempts > 0 /\ call.log[Attempts] # "ok"
          /\ \/ Attempts = call.retries
             \/ call.log[Attempts] = "401" /\ localStorage.jwt_token = "null"
    /\ Attempts > 0 /\ call.log[Attempts] = "401" /\ Handles401(call.script) =>
          call.pc = "threw" /\ localStorage.jwt_token = "null"

\* A call with three retries threw on a 401 at its second attempt, and no
\* token is in storage.
RetryBoundedWitness ==
    /\ call.pc = "threw" /\ call.retries = 3 /\ call.script = "app.js"
    /\ call.log = <<"500", "401">>
    /\ localStorage.jwt_token = "null"

\* C25: two adds that were both answered 200 were not answered with the same
\* id, however their steps interleaved.
AddsAnswerDistinctIds ==
    \A s, t \in Slots :
        s # t /\ Acked(s, "add") /\ Acked(t, "add")
            => Resp(req[s]).id # Resp(req[t]).id

\* C26: a catalog file that held a valid array when the latest request
\* arrived, and has been written by requests that all answered 200, does not
\* hold an empty array while records were in it and no delete has run.
NoDelete == \A s \in Slots : req[s].form.op # "delete"
NeverEmptied ==
    (/\ file.kind = "json" /\ NoDelete
     /\ before.file.kind = "json" /\ before.file.recs # <<>>)
        => file.recs # <<>>

\* C27: for every category, and for posters, the path on disk that edit and
\* delete compute to remove a file a record references names the file the
\* upload router stored (and the static mount serves), as the filesystem
\* compares names.
UnlinkPathIsStoredPath ==
    \A s \in Slots :
        req[s].pc = "unlink" =>
            \A p \in UnlinkPaths(req[s]) :
                p.pre \in {UrlPrefix(c) : c \in Categories} \cup {PosterPrefix}
                    => /\ UnlinkTarget(p).name = Served(p).name
                       /\ SameDir(UnlinkTarget(p).dir, Served(p).dir)

\* C28: only the admin changes the catalog: an add, edit or delete that
\* carries a valid token of another user is rejected (401 or 403) and leaves
\* the uploads, the catalog file and the backups as they were.
NotAdmin(s) == Latest(s) /\ Guarded(req[s].form) /\ req[s].form.token # "admin"
OnlyAdminChanges ==
    \A s \in Slots :
        NotAdmin(s) =>
            /\ Done(s) /\ req[s].status \in {401, 403}
            /\ disk = before.disk /\ file = before.file /\ backups = before.backups

\* C29: the admin form has at most one add or edit submission in flight: a
\* submit that arrives after the request was sent and before its response is
\* ignored by the isSubmitting guard.
OneSubmissionInFlight == Cardinality(page.xhrs) <= 1

\* What the call found in the cache when it started.
FoundFresh ==
    /\ call.cached.kind # "null" /\ Truthy(call.cachedTimestamp)
    /\ ~ParseInt(call.cachedTimestamp).nan
    /\ call.now - ParseInt(call.cachedTimestamp).val < call.cacheDuration
FromCacheOnlyIfFresh ==
    call.from = "cache" =>
        /\ FoundFresh /\ call.cached.kind = "json"
        /\ call.result = [kind |-> "data", at |-> call.cached.at]
ElseNetwork ==
    call.pc # "idle" /\ call.retries > 0 /\ ~(FoundFresh /\ call.cached.kind = "json")
        => call.pc \in {"fetch", "wait", "threw"} \/ call.from = "network"
Fetched == call.pc = "returned" /\ call.from = "network"
InCache(data, t) == localStorage.cached = data /\ localStorage.stamp = ToStr(t)
NeverStale ==
    call.pc = "returned" /\ call.result.kind = "data"
        => call.done - call.result.at < call.cacheDuration

\* C30 (as claimed): fetchWithRetry returns cached data only when an entry
\* exists, parses and has a timestamp less than cacheDuration old, and
\* otherwise goes to the network; after every successful fetch the cache holds
\* the fetched data with the time of that call; returned data is never older
\* than cacheDuration.
CacheStoredOnSuccess ==
    /\ FromCacheOnlyIfFresh /\ ElseNetwork /\ NeverStale
    /\ Fetched => InCache(Text(call.result.at), call.now)

\* C30 (amended): fetchWithRetry returns cached data only when an entry
\* exists, parses and has a timestamp less than cacheDuration old, and
\* otherwise goes to the network; after a successful fetch whose cache write
\* localStorage accepted, the cache holds the fetched data with the time at
\* which that call started; returned data is never older than cacheDuration.
CacheStoredWhenAccepted ==
    /\ FromCacheOnlyIfFresh /\ ElseNetwork /\ NeverStale
    /\ Fetched /\ call.how = "stored" => InCache(Text(call.result.at), call.now)

\* The second call returned, half an hour later, the data the first call had
\* fetched and stored.
CacheStoredWitness ==
    /\ call.n = 2 /\ call.pc = "returned" /\ call.from = "cache"
    /\ call.now = StartClock + 2 * TickMs
    /\ call.cachedTimestamp = ToStr(StartClock + TickMs)
    /\ call.result.at = StartClock + TickMs

====
